---- MODULE Spec2Model ----
(***************************************************************************)
(* Model of plugins/modules/volume_action.py: VolumeActionModule.          *)
(*                                                                         *)
(* One invocation of the module validates the caller's arguments against   *)
(* argument_spec / module_kwargs, looks the volume up, dispatches one      *)
(* block-storage call and reports changed=True.  Two invocations are run   *)
(* side by side; the second has the request of the first except for        *)
(* all_projects, so that properties relating two invocations can be        *)
(* stated.  Invocations share no state.                                    *)
(*                                                                         *)
(* A Python value that may be None is a sequence of length 0 (None) or 1.  *)
(***************************************************************************)
EXTENDS Naturals, Sequences, FiniteSets, TLC

None == <<>>
Some(x) == <<x>>
IsNone(v) == Len(v) = 0

Runs == {"run1", "run2"}

(* ---------------- the caller's inputs and the cloud's answers ---------- *)

VolumeNames == {"vol1"}
ActionNames == {"extend", "reset_status", "revert", "resize"}
SnapshotIds == {"snap-123"}
StatusNames == {"error"}
VolumeObjects == {"Volume-1", "Volume-2"}
PlatformErrors == {"permission denied", "invalid state"}

Opt(S) == {None} \cup {Some(x) : x \in S}

Requests ==
  [volume : Opt(VolumeNames), action : Opt(ActionNames),
   snapshot_id : Opt(SnapshotIds), status : Opt(StatusNames),
   new_size : Opt(BOOLEAN), all_projects : Opt(BOOLEAN)]

(* ---------------- argument_spec and module_kwargs ---------------------- *)

Options == {"volume", "action", "snapshot_id", "status", "new_size", "all_projects"}

choices == {"extend", "reset_status", "revert"}

argument_spec ==
  [volume       |-> [required |-> TRUE,  default |-> None],
   action       |-> [required |-> TRUE,  default |-> None],
   snapshot_id  |-> [required |-> FALSE, default |-> None],
   status       |-> [required |-> FALSE, default |-> None],
   new_size     |-> [required |-> FALSE, default |-> Some(FALSE)],
   all_projects |-> [required |-> FALSE, default |-> Some(FALSE)]]

required_if ==
  {<<"extend", "new_size">>, <<"reset_status", "status">>, <<"revert", "snapshot_id">>}

supports_check_mode == TRUE

(* Defaults of argument_spec are filled in for the options the caller did  *)
(* not supply; this happens before required_if is evaluated.               *)
set_defaults(p) ==
  [k \in Options |-> IF IsNone(p[k]) THEN argument_spec[k].default ELSE p[k]]

missing_required(p) == {k \in Options : argument_spec[k].required /\ IsNone(p[k])}

bad_choice(p) == ~IsNone(p.action) /\ p.action[1] \notin choices

required_if_missing(p) ==
  {req \in required_if :
     /\ ~IsNone(p.action)
     /\ p.action[1] = req[1]
     /\ IsNone(p[req[2]])}

(* The failure message of argument validation, or None when the arguments  *)
(* are accepted.                                                           *)
validate(p) ==
  IF missing_required(p) # {} THEN Some(<<"missing required arguments">>)
  ELSE IF bad_choice(p) THEN Some(<<"value of action must be one of", p.action[1]>>)
  ELSE IF required_if_missing(p) # {}
       THEN Some(<<"action is", p.action[1], "but all of the following are missing">>)
  ELSE None

(* ---------------- results ---------------------------------------------- *)

fail_json(msg) == Some([failed |-> TRUE, changed |-> FALSE, msg |-> msg])

exit_json(changed) == Some([failed |-> FALSE, changed |-> changed, msg |-> <<>>])

(* ---------------- cloud calls ------------------------------------------ *)

Call(op, args, error) == [op |-> op, args |-> args, error |-> error]

MutatingOps == {"extend_volume", "reset_volume_status", "revert_volume_to_snapshot"}

(* get_volume(name_or_id): the call the module makes to look the volume up *)
get_volume_args(p) == <<p.volume>>

(* The scope a lookup call asks for: the all_projects argument when the    *)
(* call passes one, the caller's own project otherwise.                    *)
lookup_scope(c) == IF Len(c.args) >= 2 THEN c.args[2] ELSE Some(FALSE)

volume_missing_never(v) == FALSE

(* `if not volume` *)
volume_missing(v) == IsNone(v)

could_not_find(p) == <<"Could not find volume", p.volume[1]>>

execute_swapped(p, v) ==
  IF p.action[1] = "extend" THEN <<"extend_volume", <<v, p.new_size>>>>
  ELSE IF p.action[1] = "reset_status" THEN <<"revert_volume_to_snapshot", <<v, p.status>>>>
  ELSE IF p.action[1] = "revert" THEN <<"reset_volume_status", <<v, p.snapshot_id>>>>
  ELSE None

execute_scope_dependent(p, v) ==
  IF p.all_projects[1] THEN None
  ELSE IF p.action[1] = "extend" THEN <<"extend_volume", <<v, p.new_size>>>>
  ELSE IF p.action[1] = "reset_status" THEN <<"reset_volume_status", <<v, p.status>>>>
  ELSE IF p.action[1] = "revert" THEN <<"revert_volume_to_snapshot", <<v, p.snapshot_id>>>>
  ELSE None

execute_by_name(p, v) ==
  IF p.action[1] = "extend" THEN <<"extend_volume", <<p.volume, p.new_size>>>>
  ELSE IF p.action[1] = "reset_status" THEN <<"reset_volume_status", <<p.volume, p.status>>>>
  ELSE IF p.action[1] = "revert" THEN <<"revert_volume_to_snapshot", <<p.volume, p.snapshot_id>>>>
  ELSE None

(* _execute_volume_action: the operation and arguments of the call it      *)
(* makes, or None when no branch matches and it falls through.             *)
execute_volume_action(p, v) ==
  IF p.action[1] = "extend" THEN <<"extend_volume", <<v, p.new_size>>>>
  ELSE IF p.action[1] = "reset_status" THEN <<"reset_volume_status", <<v, p.status>>>>
  ELSE IF p.action[1] = "revert" THEN <<"revert_volume_to_snapshot", <<v, p.snapshot_id>>>>
  ELSE None

run_retries == "execute"

run_swallows == "exit_json"

(* run() has no exception handler: an exception raised by a cloud call     *)
(* leaves run() and reaches the caller of run().                           *)
run_on_exception == "raised"

run_reports_unchanged == exit_json(FALSE)

(* self.exit_json(changed=True) *)
run_exit == exit_json(TRUE)

(* ---------------- state ------------------------------------------------ *)

VARIABLES
  request,     \* the arguments each invocation was called with
  check_mode,  \* whether the invocation runs in check (dry-run) mode
  params,      \* self.params
  pc,          \* where each invocation is
  volume,      \* the local `volume` of run()
  calls,       \* the cloud calls each invocation has issued, in order
  exc,         \* the exception in flight, if any
  result       \* what the invocation reported with exit_json / fail_json

vars == <<request, check_mode, params, pc, volume, calls, exc, result>>

Init ==
  /\ \E q \in Requests, ap \in Opt(BOOLEAN) :
       request = [r \in Runs |-> IF r = "run1" THEN q
                                 ELSE [q EXCEPT !.all_projects = ap]]
  /\ \E cm \in BOOLEAN : check_mode = [r \in Runs |-> cm]
  /\ params = request
  /\ pc = [r \in Runs |-> "validate"]
  /\ volume = [r \in Runs |-> None]
  /\ calls = [r \in Runs |-> <<>>]
  /\ exc = [r \in Runs |-> None]
  /\ result = [r \in Runs |-> None]

(* Argument handling done when the module object is constructed.  Since    *)
(* supports_check_mode is set, check mode does not end the invocation.     *)
Validate(r) ==
  /\ pc[r] = "validate"
  /\ LET p == set_defaults(request[r])
         err == validate(p)
     IN /\ params' = [params EXCEPT ![r] = p]
        /\ IF ~IsNone(err)
           THEN /\ result' = [result EXCEPT ![r] = fail_json(err[1])]
                /\ pc' = [pc EXCEPT ![r] = "done"]
           ELSE IF check_mode[r] /\ ~supports_check_mode
           THEN /\ result' = [result EXCEPT ![r] = exit_json(FALSE)]
                /\ pc' = [pc EXCEPT ![r] = "done"]
           ELSE /\ result' = result
                /\ pc' = [pc EXCEPT ![r] = "preliminary_checks"]
  /\ UNCHANGED <<request, check_mode, volume, calls, exc>>

(* _preliminary_checks: the lookup returns a volume, returns None, or      *)
(* raises.                                                                 *)
PreliminaryChecks(r) ==
  /\ pc[r] = "preliminary_checks"
  /\ \/ \E v \in Opt(VolumeObjects) :
          /\ calls' = [calls EXCEPT ![r] =
                         Append(@, Call("get_volume", get_volume_args(params[r]), None))]
          /\ volume' = [volume EXCEPT ![r] = v]
          /\ IF volume_missing(v)
             THEN /\ result' = [result EXCEPT ![r] = fail_json(could_not_find(params[r]))]
                  /\ pc' = [pc EXCEPT ![r] = "done"]
             ELSE /\ result' = result
                  /\ pc' = [pc EXCEPT ![r] = "execute"]
          /\ exc' = exc
     \/ \E m \in PlatformErrors :
          /\ calls' = [calls EXCEPT ![r] =
                         Append(@, Call("get_volume", get_volume_args(params[r]), Some(m)))]
          /\ exc' = [exc EXCEPT ![r] = Some(m)]
          /\ pc' = [pc EXCEPT ![r] = run_on_exception]
          /\ UNCHANGED <<volume, result>>
  /\ UNCHANGED <<request, check_mode, params>>

(* _execute_volume_action: the dispatched call returns or raises.          *)
ExecuteVolumeAction(r) ==
  /\ pc[r] = "execute"
  /\ LET c == execute_volume_action(params[r], volume[r])
     IN IF IsNone(c)
        THEN /\ pc' = [pc EXCEPT ![r] = "exit_json"]
             /\ UNCHANGED <<calls, exc>>
        ELSE \/ /\ calls' = [calls EXCEPT ![r] = Append(@, Call(c[1], c[2], None))]
                /\ pc' = [pc EXCEPT ![r] = "exit_json"]
                /\ exc' = exc
             \/ \E m \in PlatformErrors :
                  /\ calls' = [calls EXCEPT ![r] = Append(@, Call(c[1], c[2], Some(m)))]
                  /\ exc' = [exc EXCEPT ![r] = Some(m)]
                  /\ pc' = [pc EXCEPT ![r] = run_on_exception]
  /\ UNCHANGED <<request, check_mode, params, volume, result>>

(* the last statement of run() *)
ExitJson(r) ==
  /\ pc[r] = "exit_json"
  /\ result' = [result EXCEPT ![r] = run_exit]
  /\ pc' = [pc EXCEPT ![r] = "done"]
  /\ UNCHANGED <<request, check_mode, params, volume, calls, exc>>

(* The caller of run() turns a cloud exception into a failure that carries *)
(* the exception's message.                                                *)
HandleException(r) ==
  /\ pc[r] = "raised"
  /\ result' = [result EXCEPT ![r] = fail_json(<<exc[r][1]>>)]
  /\ pc' = [pc EXCEPT ![r] = "done"]
  /\ UNCHANGED <<request, check_mode, params, volume, calls, exc>>

Next ==
  \/ \E r \in Runs : Validate(r)
  \/ \E r \in Runs : PreliminaryChecks(r)
  \/ \E r \in Runs : ExecuteVolumeAction(r)
  \/ \E r \in Runs : ExitJson(r)
  \/ \E r \in Runs : HandleException(r)

Spec == Init /\ [][Next]_vars

(* ---------------- what the properties talk about ----------------------- *)

Mutating(r) == SelectSeq(calls[r], LAMBDA c : c.op \in MutatingOps)

Lookups(r) == SelectSeq(calls[r], LAMBDA c : c.op = "get_volume")

Companion(a) ==
  IF a = "extend" THEN "new_size" ELSE IF a = "reset_status" THEN "status" ELSE "snapshot_id"

KnownAction(q) == ~IsNone(q.action) /\ q.action[1] \in choices

CompanionAbsent(q) == KnownAction(q) /\ IsNone(q[Companion(q.action[1])])

(* a request that names a volume, a known action and that action's companion *)
ValidRequest(q) == ~IsNone(q.volume) /\ KnownAction(q) /\ ~CompanionAbsent(q)

ConfigurationMessages ==
  {"missing required arguments", "value of action must be one of", "action is"}

IsConfigurationError(res) ==
  /\ ~IsNone(res)
  /\ res[1].failed
  /\ Len(res[1].msg) > 0
  /\ res[1].msg[1] \in ConfigurationMessages

LookupFound(r) ==
  /\ Len(calls[r]) >= 1
  /\ calls[r][1].op = "get_volume"
  /\ IsNone(calls[r][1].error)
  /\ ~IsNone(volume[r])

LookupNoMatch(r) ==
  /\ Len(calls[r]) >= 1
  /\ calls[r][1].op = "get_volume"
  /\ IsNone(calls[r][1].error)
  /\ IsNone(volume[r])

(* the dispatch step of the invocation is over (returned or raised) *)
Dispatched(r) == LookupFound(r) /\ pc[r] \in {"exit_json", "raised", "done"}

(* C1: in check mode, a valid request whose lookup returned a volume       *)
(* issues no mutating call and ends with the result changed=true.          *)
C1_CheckModeDoesNotMutate ==
  \A r \in Runs :
    (check_mode[r] /\ ValidRequest(request[r]) /\ LookupFound(r))
      => /\ Len(Mutating(r)) = 0
         /\ (pc[r] = "done" => result[r] = exit_json(TRUE))

(* C2: for every action, a request without that action's companion field   *)
(* fails with a configuration error and issues no cloud call at all.       *)
C2_MissingCompanionRejected ==
  \A r \in Runs :
    CompanionAbsent(request[r])
      => /\ Len(calls[r]) = 0
         /\ (pc[r] = "done" => IsConfigurationError(result[r]))

(* C3: when the lookup of a valid request returns no match, the invocation *)
(* has failed with the not-found message naming the volume, has issued no  *)
(* mutating call, and changed=true is not reported.                        *)
C3_NotFoundFails ==
  \A r \in Runs :
    (ValidRequest(request[r]) /\ LookupNoMatch(r))
      => /\ pc[r] = "done"
         /\ result[r] = fail_json(<<"Could not find volume", request[r].volume[1]>>)
         /\ Len(Mutating(r)) = 0

C3_Witness ==
  \E r \in Runs : ValidRequest(request[r]) /\ LookupNoMatch(r) /\ pc[r] = "done"

(* C4: a valid request outside check mode whose lookup returned V has      *)
(* issued, once dispatch is over, exactly one mutating call: the one of    *)
(* its action, with V and the action's companion value.                    *)
C4_DispatchMatchesAction ==
  \A r \in Runs :
    (~check_mode[r] /\ ValidRequest(request[r]) /\ Dispatched(r))
      => /\ Len(Mutating(r)) = 1
         /\ LET a == request[r].action[1]
                c == Mutating(r)[1]
            IN /\ a = "extend" =>
                    (c.op = "extend_volume"
                       /\ c.args = <<volume[r], request[r].new_size>>)
               /\ a = "reset_status" =>
                    (c.op = "reset_volume_status"
                       /\ c.args = <<volume[r], request[r].status>>)
               /\ a = "revert" =>
                    (c.op = "revert_volume_to_snapshot"
                       /\ c.args = <<volume[r], request[r].snapshot_id>>)

C4_Witness ==
  \E r \in Runs :
    /\ ~check_mode[r] /\ ValidRequest(request[r]) /\ Dispatched(r)
    /\ request[r].action[1] = "revert"
    /\ Len(Mutating(r)) = 1

(* C5: an invocation that ended without failure reported changed=true, and *)
(* changed=true is reported only after a lookup that returned a volume and *)
(* a dispatched operation that returned without error.                     *)
C5_ChangedOnlyAfterSuccess ==
  \A r \in Runs :
    /\ (pc[r] = "done" /\ ~IsNone(result[r]) /\ ~result[r][1].failed)
         => result[r][1].changed
    /\ (~IsNone(result[r]) /\ result[r][1].changed)
         => /\ LookupFound(r)
            /\ Len(calls[r]) = 2
            /\ calls[r][2].op \in MutatingOps
            /\ IsNone(calls[r][2].error)

C5_Witness ==
  \E r \in Runs : pc[r] = "done" /\ result[r] = exit_json(TRUE)

(* C6: when the dispatched operation raised, it is the last cloud call of  *)
(* the invocation, no success is reported, and the invocation ends in a    *)
(* failure whose message is the error's message.                           *)
C6_PlatformErrorPropagates ==
  \A r \in Runs :
    \A i \in 1..Len(calls[r]) :
      (calls[r][i].op \in MutatingOps /\ ~IsNone(calls[r][i].error))
        => /\ i = Len(calls[r])
           /\ pc[r] \in {"raised", "done"}
           /\ (pc[r] = "raised" => IsNone(result[r]))
           /\ (pc[r] = "done" => result[r] = fail_json(<<calls[r][i].error[1]>>))

C6_Witness ==
  \E r \in Runs :
    /\ pc[r] = "done"
    /\ Len(calls[r]) = 2
    /\ calls[r][2].op \in MutatingOps
    /\ ~IsNone(calls[r][2].error)

(* C7: the lookup call asks for all-projects scope exactly when the        *)
(* all_projects option is true.                                            *)
C7_LookupScopedByAllProjects ==
  \A r \in Runs :
    \A i \in 1..Len(calls[r]) :
      calls[r][i].op = "get_volume"
        => lookup_scope(calls[r][i]) = params[r].all_projects

SameExceptAllProjects(r1, r2) ==
  /\ \A k \in Options \ {"all_projects"} : request[r1][k] = request[r2][k]
  /\ check_mode[r1] = check_mode[r2]

(* C8: two invocations that differ only in all_projects and whose lookups  *)
(* returned the same volume have dispatched the same operation with the    *)
(* same arguments.                                                         *)
C8_AllProjectsDoesNotChangeAction ==
  \A r1, r2 \in Runs :
    (/\ SameExceptAllProjects(r1, r2)
     /\ Dispatched(r1) /\ Dispatched(r2)
     /\ volume[r1] = volume[r2])
      => /\ Len(Mutating(r1)) = Len(Mutating(r2))
         /\ \A i \in 1..Len(Mutating(r1)) :
              /\ Mutating(r1)[i].op = Mutating(r2)[i].op
              /\ Mutating(r1)[i].args = Mutating(r2)[i].args

C8_Witness ==
  \E r1, r2 \in Runs :
    /\ SameExceptAllProjects(r1, r2)
    /\ params[r1].all_projects = Some(TRUE)
    /\ params[r2].all_projects = Some(FALSE)
    /\ Dispatched(r1) /\ Dispatched(r2)
    /\ volume[r1] = volume[r2]
    /\ Len(Mutating(r1)) = 1

(* C9: in every state of an invocation, at most one mutating call has been *)
(* issued.                                                                 *)
C9_AtMostOneMutatingCall ==
  \A r \in Runs : Len(Mutating(r)) <= 1

C9_Witness ==
  \E r \in Runs :
    /\ pc[r] = "done"
    /\ result[r][1].failed
    /\ Len(Mutating(r)) = 1

(* C10: the lookup is issued once and first; a mutating call is issued     *)
(* only after the lookup returned a volume, and its volume argument is the *)
(* object the lookup returned.                                             *)
C10_LookupBeforeMutation ==
  \A r \in Runs :
    /\ Len(Lookups(r)) <= 1
    /\ pc[r] \in {"execute", "exit_json", "raised", "done"} /\ Len(calls[r]) > 0
         => (Len(Lookups(r)) = 1 /\ calls[r][1].op = "get_volume")
    /\ \A i \in 1..Len(calls[r]) :
         calls[r][i].op \in MutatingOps
           => /\ i > 1
              /\ LookupFound(r)
              /\ calls[r][i].args[1] = volume[r]

C10_Witness ==
  \E r \in Runs :
    /\ Len(calls[r]) = 2
    /\ calls[r][1].op = "get_volume"
    /\ calls[r][2].op \in MutatingOps
    /\ calls[r][2].args[1] = volume[r]
    /\ request[r].volume = Some("vol1")

====
